---- MODULE Spec2Model ----
(***************************************************************************)
(* Session / token lifecycle of the auth service (internal/auth/server.go) *)
(* together with the JWT manager (utils.JWTManager) it drives, the user    *)
(* table it reads and the Redis keys "refresh:<id>" and "blacklist:<tok>". *)
(*                                                                         *)
(* Time is a discrete clock `now`.  A token is valid while now < exp       *)
(* (jwt/v5 validator: cmp.Before(exp)); a Redis key written at instant t   *)
(* with TTL d is present while now < t + d.                                *)
(***************************************************************************)
EXTENDS Integers, Sequences, FiniteSets, TLC

\* ------------------------------------------------------------------ bounds
MaxTime == 2            \* the clock runs 0..MaxTime
MaxIssue == 3           \* GenerateTokenPair calls in one behaviour
MaxDrift == 1           \* clock advance between two clock reads of one handler

\* ---------------------------------------------------------- configuration
\* JWT_ACCESS_TTL / JWT_REFRESH_TTL (environment-overridable durations), in
\* clock ticks: access TTL < refresh TTL.
AccessTokenTTL == 1
RefreshTokenTTL == 2

Secret == "your-secret-key-change-in-production"
OtherKey == "attacker-key"

Emails == {"a@x.com", "b@x.com"}
\* Passwords tried at Login; accounts are created with the first one (a
\* password is only ever compared with the one that was hashed).
Passwords == {"pw", "other"}
RegPasswords == {"pw"}
Names == {"A"}
\* The UUID a new account for each email receives.
UserIDOf == [e \in Emails |-> IF e = "a@x.com" THEN "u1" ELSE "u2"]

NoUser == [ID |-> "", Email |-> "", PasswordHash |-> <<>>, Name |-> ""]

\* ------------------------------------------------------------- token codec
HMACAlgs == {"HS256", "HS384", "HS512"}

\* HMAC over header+payload: determined by algorithm, key and signed claims.
Sign(alg, key, claims) == [alg |-> alg, key |-> key, over |-> claims]

MkClaims(userID, email, typ, exp, iat, id) ==
    [UserID |-> userID, Email |-> email, Type |-> typ,
     ExpiresAt |-> exp, IssuedAt |-> iat, ID |-> id]

\* jwt.NewWithClaims(jwt.SigningMethodHS256, claims).SignedString(secret)
\* A compact JWS has three dot-separated segments.
SignedString(claims) ==
    [segs |-> 3, alg |-> "HS256", claims |-> claims,
     sig |-> Sign("HS256", Secret, claims)]

NoClaims == MkClaims("", "", "", 0, 0, 0)
\* The empty string, and a string that is no JWT.
NoToken == [segs |-> 0, alg |-> "", claims |-> NoClaims, sig |-> Sign("", "", NoClaims)]
Malformed == [segs |-> 1, alg |-> "", claims |-> NoClaims, sig |-> Sign("", "", NoClaims)]
NoKey == [val |-> NoToken, exp |-> 0]

\* Faulty variant: the ID claim is not unique per issuance.
GenerateTokenPairSameID(userID, email, c1, c2, c3, c4, id1, id2) ==
    [access  |-> SignedString(MkClaims(userID, email, "access",
                                       c1 + AccessTokenTTL, c2, 0)),
     refresh |-> SignedString(MkClaims(userID, email, "refresh",
                                       c3 + RefreshTokenTTL, c4, 0))]

\* Faulty variant: the two Type claims are exchanged.
GenerateTokenPairSwappedKinds(userID, email, c1, c2, c3, c4, id1, id2) ==
    [access  |-> SignedString(MkClaims(userID, email, "refresh",
                                       c1 + AccessTokenTTL, c2, id1)),
     refresh |-> SignedString(MkClaims(userID, email, "access",
                                       c3 + RefreshTokenTTL, c4, id2))]

\* c1..c4 are the four successive time.Now() readings, id1/id2 the two UUIDs.
GenerateTokenPair(userID, email, c1, c2, c3, c4, id1, id2) ==
    [access  |-> SignedString(MkClaims(userID, email, "access",
                                       c1 + AccessTokenTTL, c2, id1)),
     refresh |-> SignedString(MkClaims(userID, email, "refresh",
                                       c3 + RefreshTokenTTL, c4, id2))]

\* Faulty variant: the exp claim is not validated.
ValidateTokenNoExpiry(tok, t) ==
    IF tok.segs # 3 THEN [ok |-> FALSE, claims |-> NoClaims]
    ELSE IF tok.alg \notin HMACAlgs THEN [ok |-> FALSE, claims |-> NoClaims]
    ELSE IF tok.sig # Sign(tok.alg, Secret, tok.claims)
         THEN [ok |-> FALSE, claims |-> NoClaims]
    ELSE [ok |-> TRUE, claims |-> tok.claims]

\* jwt.ParseWithClaims with the key function of ValidateToken, read at
\* instant t: parse, pin the signing-method family, verify the signature,
\* validate exp.  Returns [ok, claims].
ValidateToken(tok, t) ==
    IF tok.segs # 3 THEN [ok |-> FALSE, claims |-> NoClaims]
    ELSE IF tok.alg \notin HMACAlgs THEN [ok |-> FALSE, claims |-> NoClaims]
    ELSE IF tok.sig # Sign(tok.alg, Secret, tok.claims)
         THEN [ok |-> FALSE, claims |-> NoClaims]
    ELSE IF ~(t < tok.claims.ExpiresAt) THEN [ok |-> FALSE, claims |-> NoClaims]
    ELSE [ok |-> TRUE, claims |-> tok.claims]

\* Faulty variant: the token type is not checked.
ValidateAccessTokenAnyType(tok, t) == ValidateToken(tok, t)

ValidateAccessToken(tok, t) ==
    LET r == ValidateToken(tok, t) IN
    IF ~r.ok THEN r
    ELSE IF r.claims.Type # "access" THEN [ok |-> FALSE, claims |-> NoClaims]
    ELSE r

ValidateRefreshToken(tok, t) ==
    LET r == ValidateToken(tok, t) IN
    IF ~r.ok THEN r
    ELSE IF r.claims.Type # "refresh" THEN [ok |-> FALSE, claims |-> NoClaims]
    ELSE r

\* ------------------------------------------------------------------- users
\* bcrypt: a salted one-way hash; CompareHashAndPassword succeeds for the
\* password that was hashed and no other.
HashPassword(pw) == <<"bcrypt", pw>>
CheckPassword(user, pw) == user.PasswordHash = HashPassword(pw)

VARIABLES
    now,        \* the clock
    users,      \* users table: email -> row, NoUser when absent
    refresh,    \* Redis "refresh:<userID>": [val, exp], NoKey when absent
    blacklist,  \* Redis "blacklist:<token>": set of [tok, exp]
    inflight,   \* per handler, what it holds between its check and its write:
                \* the token of a Refresh, the new row of a Register
    issued,     \* every token a handler has returned so far
    nIssued,    \* number of GenerateTokenPair calls so far
    last,       \* the response being handed back, NoResp once delivered
    hist        \* what has happened so far (observations, read by no handler)

vars == <<now, users, refresh, blacklist, inflight, issued, nIssued, last, hist>>

UserIDs == {UserIDOf[e] : e \in Emails}
\* Two request handlers whose Refresh calls may overlap.
Handlers == {"h1", "h2"}

\* models.NewUser: uuid.New() as ID, the bcrypt hash of the password.
NewUser(email, password, name) ==
    [ID |-> UserIDOf[email], Email |-> email,
     PasswordHash |-> HashPassword(password), Name |-> name]

\* A handler's answer: the request it answers (op, email or token), the
\* error it returned ("none" when nil), the Valid / Success flag and the
\* fields the response message carries.
Resp(op, reqEmail, reqToken, err, ok, userID, email, a, r, expiresIn) ==
    [op |-> op, reqEmail |-> reqEmail, reqToken |-> reqToken,
     err |-> err, ok |-> ok, UserId |-> userID, Email |-> email,
     AccessToken |-> a, RefreshToken |-> r, ExpiresIn |-> expiresIn]
\* `return nil, err`, and a response with every field zero.
Fail(op, reqEmail, reqToken, err) ==
    Resp(op, reqEmail, reqToken, err, FALSE, "", "", NoToken, NoToken, 0)
NoResp == Fail("none", "", NoToken, "none")

\* ----------------------------------------------------------- what clients send
\* A client can present any token it was handed, and strings built from
\* them without the signing secret.
Retyped(t) ==        \* payload edited, signature kept
    [t EXCEPT !.claims.Type = IF @ = "access" THEN "refresh" ELSE "access"]
Unsigned(t) ==       \* alg "none", empty signature
    [t EXCEPT !.alg = "none", !.sig = Sign("none", "", t.claims)]
Resigned(t) ==       \* signed with a key that is not the server's
    [t EXCEPT !.sig = Sign(t.alg, OtherKey, t.claims)]
Forged(S) ==
    {Retyped(t) : t \in S} \cup {Unsigned(t) : t \in S} \cup {Resigned(t) : t \in S}
\* Every string a client could present in the current state.
Strings == issued \cup {Malformed} \cup Forged(issued)
\* The strings the handlers are driven with: every issued token, a string
\* that is no JWT, and the forgeries of the pair issued last.
LatestPair == {t \in issued : t.claims.ID > 2 * (nIssued - 1)}
Inputs == issued \cup {Malformed} \cup Forged(LatestPair)

\* ------------------------------------------------------------ Redis access
\* Passive expiry: a key whose expiry instant has been reached is gone.
LiveRefresh(store, t) ==
    [u \in UserIDs |-> IF store[u] # NoKey /\ t < store[u].exp
                       THEN store[u] ELSE NoKey]
LiveBlacklist(store, t) == {b \in store : t < b.exp}

\* EXISTS blacklist:<tok>
Blacklisted(tok) == \E b \in blacklist : b.tok = tok /\ now < b.exp
\* GET refresh:<userID>: [found, val]
GetRefresh(userID) ==
    IF userID \in UserIDs /\ refresh[userID] # NoKey /\ now < refresh[userID].exp
    THEN [found |-> TRUE, val |-> refresh[userID].val]
    ELSE [found |-> FALSE, val |-> NoToken]
\* Faulty variant: SET ... NX, an existing key is kept.
SetRefreshIfAbsent(store, userID, tok, t, ttl) ==
    IF store[userID] # NoKey THEN store
    ELSE [store EXCEPT ![userID] = [val |-> tok, exp |-> t + ttl]]

\* Faulty variant: SET ... KEEPTTL, an existing key keeps its expiry.
SetRefreshKeepTTL(store, userID, tok, t, ttl) ==
    IF store[userID] # NoKey
    THEN [store EXCEPT ![userID] = [val |-> tok, exp |-> store[userID].exp]]
    ELSE [store EXCEPT ![userID] = [val |-> tok, exp |-> t + ttl]]

\* SET refresh:<userID> <tok> EX ttl, issued at instant t
SetRefresh(store, userID, tok, t, ttl) ==
    [store EXCEPT ![userID] = [val |-> tok, exp |-> t + ttl]]
\* Faulty variant: the keys of all users are deleted.
DelRefreshAll(store, userID) == [u \in UserIDs |-> NoKey]

\* DEL refresh:<userID>
DelRefresh(store, userID) == [store EXCEPT ![userID] = NoKey]
\* Faulty variant: the deny-list entry is not written.
SetBlacklistSkipped(store, tok, t, ttl) == store

\* Faulty variant: the deny-list entry gets the refresh TTL, whatever is
\* left of the token's lifetime.
SetBlacklistFixedTTL(store, tok, t, ttl) ==
    {b \in store : b.tok # tok} \cup {[tok |-> tok, exp |-> t + RefreshTokenTTL]}

\* SET blacklist:<tok> "1" EX ttl, issued at instant t
SetBlacklist(store, tok, t, ttl) ==
    {b \in store : b.tok # tok} \cup {[tok |-> tok, exp |-> t + ttl]}

\* ------------------------------------------------------------ observations
\* logins[u]   : refresh tokens returned by the latest run of successive
\*               successful Logins of u (the last two of them)
\* rotated     : [tok, new] for every Refresh(tok) that succeeded returning new
\* clean       : the rotated tokens whose user has not logged out since
\* loggedOut   : tokens for which Logout answered success
\* terminal[u] : a Logout of u succeeded and no Login/Register of u since
\* calls       : the PostgreSQL / Redis calls made for the request being
\*               handled, [site, ok] in the order made (recorded where a
\*               handler is run call by call)
\* partial     : tokens whose Logout wrote the blacklist key and then failed
\*               in its DEL
NoHist ==
    [logins |-> [u \in UserIDs |-> <<>>], rotated |-> {}, clean |-> {},
     loggedOut |-> {}, terminal |-> [u \in UserIDs |-> FALSE], calls |-> <<>>,
     partial |-> {}, created |-> {}]
LastTwo(seq, x) == IF seq = <<>> THEN <<x>> ELSE <<seq[Len(seq)], x>>
SawRegister(h, u) ==
    [h EXCEPT !.logins[u] = <<>>, !.terminal[u] = FALSE]
SawCreate(h, user) == [h EXCEPT !.created = @ \cup {user}]
SawLogin(h, u, new) ==
    [h EXCEPT !.logins[u] = LastTwo(@, new), !.terminal[u] = FALSE]
SawRefresh(h, u, tok, new) ==
    [h EXCEPT !.logins[u] = <<>>,
              !.rotated = @ \cup {[tok |-> tok, new |-> new]},
              !.clean = @ \cup {tok}]
SawLogout(h, u, tok) ==
    [h EXCEPT !.logins[u] = <<>>, !.loggedOut = @ \cup {tok},
              !.clean = {t \in @ : t.claims.UserID # u},
              !.terminal[u] = TRUE]
\* Observations are kept about tokens that have not reached their expiry.
Fresh(tok, t) == t < tok.claims.ExpiresAt
SawTime(h, t) ==
    [h EXCEPT !.logins = [u \in UserIDs |->
                            IF \A i \in 1..Len(@[u]) : Fresh(@[u][i], t)
                            THEN @[u] ELSE <<>>],
              !.rotated = {r \in @ : Fresh(r.tok, t)},
              !.clean = {x \in @ : Fresh(x, t)},
              !.loggedOut = {x \in @ : t <= x.claims.ExpiresAt},
              !.partial = {x \in @ : t <= x.claims.ExpiresAt}]

Init ==
    /\ hist = NoHist
    /\ now = 0
    /\ users = [e \in Emails |-> NoUser]
    /\ refresh = [u \in UserIDs |-> NoKey]
    /\ blacklist = {}
    /\ inflight = [h \in Handlers |-> NoToken]
    /\ issued = {}
    /\ nIssued = 0
    /\ last = NoResp

\* Time passes between requests.
Tick ==
    /\ now < MaxTime
    /\ now' = now + 1
    /\ refresh' = LiveRefresh(refresh, now + 1)
    /\ blacklist' = LiveBlacklist(blacklist, now + 1)
    /\ hist' = SawTime(hist, now + 1)
    /\ UNCHANGED <<users, inflight, issued, nIssued, last>>

\* The response is handed back to the caller; the next request is taken
\* once it has been.
Ready == last = NoResp
Deliver ==
    /\ ~Ready
    /\ last' = NoResp
    /\ UNCHANGED <<now, users, refresh, blacklist, inflight, issued, nIssued, hist>>

\* The pair a handler running at instant `now` generates.
NewPair(userID, email) ==
    GenerateTokenPair(userID, email, now, now, now, now,
                      2 * nIssued + 1, 2 * nIssued + 2)

\* A handler that will issue a pair is started while the behaviour's budget
\* of MaxIssue pairs, less those owed to handlers past their check, allows.
Budget ==
    nIssued + Cardinality({g \in Handlers : inflight[g] # NoToken}) < MaxIssue

\* Faulty variant: the access token is stored in place of the refresh token.
IssueAndStoreAccess(op, reqEmail, reqToken, userID, email) ==
    /\ LET pair == GenerateTokenPair(userID, email, now, now, now, now,
                                     2 * nIssued + 1, 2 * nIssued + 2) IN
       /\ refresh' = [refresh EXCEPT ![userID] =
                         [val |-> pair.access, exp |-> now + RefreshTokenTTL]]
       /\ issued' = issued \cup {pair.access, pair.refresh}
       /\ nIssued' = nIssued + 1
       /\ last' = Resp(op, reqEmail, reqToken, "none", TRUE,
                       IF op = "Refresh" THEN "" ELSE userID,
                       IF op = "Refresh" THEN "" ELSE email,
                       pair.access, pair.refresh, 0)

\* Lines 52-70 / 83-101 / 126-141: generate the pair, SET refresh:<id>, answer.
IssueAndStore(op, reqEmail, reqToken, userID, email) ==
    /\ LET pair == NewPair(userID, email) IN
       /\ refresh' = SetRefresh(refresh, userID, pair.refresh, now, RefreshTokenTTL)
       /\ issued' = issued \cup {pair.access, pair.refresh}
       /\ nIssued' = nIssued + 1
       /\ last' = Resp(op, reqEmail, reqToken, "none", TRUE,
                       IF op = "Refresh" THEN "" ELSE userID,
                       IF op = "Refresh" THEN "" ELSE email,
                       pair.access, pair.refresh, 0)

\* UserRepository: lookups on and insert into the users table (email unique).
ExistsByEmail(email) == users[email] # NoUser
GetByEmail(email) ==
    [found |-> users[email] # NoUser, user |-> users[email]]
Create(table, user) == [table EXCEPT ![user.Email] = user]

\* Faulty variant: the account is created without asking whether it exists.
RegisterNoExistsCheck(email, password, name) ==
    LET user == NewUser(email, password, name)
    IN /\ nIssued + Cardinality({g \in Handlers : inflight[g] # NoToken}) < MaxIssue
       /\ users' = [users EXCEPT ![user.Email] = user]
       /\ LET pair == GenerateTokenPair(user.ID, user.Email, now, now, now, now,
                                        2 * nIssued + 1, 2 * nIssued + 2) IN
          /\ refresh' = [refresh EXCEPT ![user.ID] =
                            [val |-> pair.refresh, exp |-> now + RefreshTokenTTL]]
          /\ issued' = issued \cup {pair.access, pair.refresh}
          /\ nIssued' = nIssued + 1
          /\ last' = Resp("Register", email, NoToken, "none", TRUE, user.ID,
                          user.Email, pair.access, pair.refresh, 0)
       /\ hist' = [hist EXCEPT !.logins[user.ID] = <<>>, !.terminal[user.ID] = FALSE]
       /\ UNCHANGED <<now, blacklist, inflight>>

Register(email, password, name) ==
    IF ExistsByEmail(email)
    THEN /\ last' = Fail("Register", email, NoToken, "AlreadyExists")
         /\ UNCHANGED <<now, users, refresh, blacklist, inflight, issued, nIssued, hist>>
    ELSE LET user == NewUser(email, password, name)
         IN /\ Budget
            /\ users' = Create(users, user)
            /\ IssueAndStore("Register", email, NoToken, user.ID, user.Email)
            /\ hist' = SawRegister(hist, user.ID)
            /\ UNCHANGED <<now, blacklist, inflight>>

\* Faulty variant: Login returns the pair without writing refresh:<id>.
LoginNoStore(email, password) ==
    LET got == GetByEmail(email)
        user == got.user IN
    IF ~got.found \/ ~CheckPassword(user, password)
    THEN /\ last' = Fail("Login", email, NoToken, "InvalidCredentials")
         /\ UNCHANGED <<now, users, refresh, blacklist, inflight, issued, nIssued, hist>>
    ELSE /\ nIssued + Cardinality({g \in Handlers : inflight[g] # NoToken}) < MaxIssue
         /\ LET pair == GenerateTokenPair(user.ID, user.Email, now, now, now, now,
                                          2 * nIssued + 1, 2 * nIssued + 2) IN
            /\ issued' = issued \cup {pair.access, pair.refresh}
            /\ nIssued' = nIssued + 1
            /\ last' = Resp("Login", email, NoToken, "none", TRUE, user.ID,
                            user.Email, pair.access, pair.refresh, 0)
            /\ hist' = SawLogin(hist, user.ID, pair.refresh)
         /\ UNCHANGED <<now, users, refresh, blacklist, inflight>>

\* Faulty variant: an unknown email is answered with its own error.
LoginDistinctErrors(email, password) ==
    LET got == GetByEmail(email)
        user == got.user IN
    IF ~got.found
    THEN /\ last' = Fail("Login", email, NoToken, "UserNotFound")
         /\ UNCHANGED <<now, users, refresh, blacklist, inflight, issued, nIssued, hist>>
    ELSE IF ~CheckPassword(user, password)
    THEN /\ last' = Fail("Login", email, NoToken, "InvalidCredentials")
         /\ UNCHANGED <<now, users, refresh, blacklist, inflight, issued, nIssued, hist>>
    ELSE /\ nIssued + Cardinality({g \in Handlers : inflight[g] # NoToken}) < MaxIssue
         /\ LET pair == GenerateTokenPair(user.ID, user.Email, now, now, now, now,
                                          2 * nIssued + 1, 2 * nIssued + 2) IN
            /\ refresh' = [refresh EXCEPT ![user.ID] =
                              [val |-> pair.refresh, exp |-> now + RefreshTokenTTL]]
            /\ issued' = issued \cup {pair.access, pair.refresh}
            /\ nIssued' = nIssued + 1
            /\ last' = Resp("Login", email, NoToken, "none", TRUE, user.ID,
                            user.Email, pair.access, pair.refresh, 0)
            /\ hist' = SawLogin(hist, user.ID, pair.refresh)
         /\ UNCHANGED <<now, users, blacklist, inflight>>

Login(email, password) ==
    LET got == GetByEmail(email)
        user == got.user IN
    IF ~got.found \/ ~CheckPassword(user, password)
    THEN /\ last' = Fail("Login", email, NoToken, "InvalidCredentials")
         /\ UNCHANGED <<now, users, refresh, blacklist, inflight, issued, nIssued, hist>>
    ELSE /\ Budget
         /\ IssueAndStore("Login", email, NoToken, user.ID, user.Email)
         /\ hist' = SawLogin(hist, user.ID, last'.RefreshToken)
         /\ UNCHANGED <<now, users, blacklist, inflight>>

\* Faulty variant: the stored value is not compared with the presented token.
RefreshCheckNoCompare(tok) ==
    IF Blacklisted(tok) THEN [err |-> "Blacklisted", claims |-> NoClaims]
    ELSE LET v == ValidateRefreshToken(tok, now) IN
         IF ~v.ok THEN [err |-> "InvalidToken", claims |-> NoClaims]
         ELSE LET g == GetRefresh(v.claims.UserID) IN
              IF ~g.found THEN [err |-> "NotFound", claims |-> NoClaims]
              ELSE [err |-> "none", claims |-> v.claims]

\* Faulty variant: the stored entry is looked up and compared before the
\* blacklist is consulted.
RefreshCheckReordered(tok) ==
    LET v == ValidateRefreshToken(tok, now) IN
    IF ~v.ok THEN [err |-> "InvalidToken", claims |-> NoClaims]
    ELSE LET g == GetRefresh(v.claims.UserID) IN
         IF ~g.found THEN [err |-> "NotFound", claims |-> NoClaims]
         ELSE IF g.val # tok THEN [err |-> "Mismatch", claims |-> NoClaims]
         ELSE IF Blacklisted(tok) THEN [err |-> "Blacklisted", claims |-> NoClaims]
         ELSE [err |-> "none", claims |-> v.claims]

\* Lines 105-124: the checks of Refresh, in order; [err, claims].
RefreshCheck(tok) ==
    IF Blacklisted(tok) THEN [err |-> "Blacklisted", claims |-> NoClaims]
    ELSE LET v == ValidateRefreshToken(tok, now) IN
         IF ~v.ok THEN [err |-> "InvalidToken", claims |-> NoClaims]
         ELSE LET g == GetRefresh(v.claims.UserID) IN
              IF ~g.found THEN [err |-> "NotFound", claims |-> NoClaims]
              ELSE IF g.val # tok THEN [err |-> "Mismatch", claims |-> NoClaims]
              ELSE [err |-> "none", claims |-> v.claims]

\* Faulty variant: the new pair is returned but refresh:<id> is not written.
RefreshIssueNoStore(tok, claims) ==
    /\ LET pair == GenerateTokenPair(claims.UserID, claims.Email, now, now, now, now,
                                     2 * nIssued + 1, 2 * nIssued + 2) IN
       /\ issued' = issued \cup {pair.access, pair.refresh}
       /\ nIssued' = nIssued + 1
       /\ last' = Resp("Refresh", "", tok, "none", TRUE, "", "",
                       pair.access, pair.refresh, 0)
       /\ hist' = SawRefresh(hist, claims.UserID, tok, pair.refresh)
    /\ UNCHANGED <<now, users, blacklist, refresh>>

\* Faulty variant: the rotation also writes blacklist:<old token>.
RefreshIssueBlacklistsOld(tok, claims) ==
    /\ IssueAndStore("Refresh", "", tok, claims.UserID, claims.Email)
    /\ hist' = SawRefresh(hist, claims.UserID, tok, last'.RefreshToken)
    /\ blacklist' = SetBlacklist(blacklist, tok, now, claims.ExpiresAt - now)
    /\ UNCHANGED <<now, users>>

\* Faulty variant: the new pair is issued without the email of the claims.
RefreshIssueForgetsEmail(tok, claims) ==
    /\ IssueAndStore("Refresh", "", tok, claims.UserID, "")
    /\ hist' = SawRefresh(hist, claims.UserID, tok, last'.RefreshToken)
    /\ UNCHANGED <<now, users, blacklist>>

\* Lines 126-141 for the claims of the presented token.
RefreshIssue(tok, claims) ==
    /\ IssueAndStore("Refresh", "", tok, claims.UserID, claims.Email)
    /\ hist' = SawRefresh(hist, claims.UserID, tok, last'.RefreshToken)
    /\ UNCHANGED <<now, users, blacklist>>

\* Faulty variant: a token that is not the stored one ends the session
\* (reuse detection).
RefreshRevokesOnReuse(tok) ==
    LET c == RefreshCheck(tok) IN
    IF c.err # "none"
    THEN /\ last' = Fail("Refresh", "", tok, c.err)
         /\ refresh' = IF c.err = "Mismatch"
                       THEN DelRefresh(refresh, tok.claims.UserID) ELSE refresh
         /\ UNCHANGED <<now, users, blacklist, inflight, issued, nIssued, hist>>
    ELSE /\ nIssued + Cardinality({g \in Handlers : inflight[g] # NoToken}) < MaxIssue
         /\ RefreshIssue(tok, c.claims)
         /\ UNCHANGED inflight

\* Refresh run with no other handler in between.
Refresh(tok) ==
    LET c == RefreshCheck(tok) IN
    IF c.err # "none"
    THEN /\ last' = Fail("Refresh", "", tok, c.err)
         /\ UNCHANGED <<now, users, refresh, blacklist, inflight, issued, nIssued, hist>>
    ELSE /\ Budget
         /\ RefreshIssue(tok, c.claims)
         /\ UNCHANGED inflight

\* Refresh as handler h runs it when other handlers may run between its GET
\* and its SET: lines 105-124, then lines 126-141.
RefreshBegin(h, tok) ==
    /\ inflight[h] = NoToken
    /\ LET c == RefreshCheck(tok) IN
       IF c.err # "none"
       THEN /\ last' = Fail("Refresh", "", tok, c.err)
            /\ UNCHANGED <<now, users, refresh, blacklist, inflight, issued,
                           nIssued, hist>>
       ELSE /\ Budget
            /\ inflight' = [inflight EXCEPT ![h] = tok]
            /\ UNCHANGED <<now, users, refresh, blacklist, issued, nIssued,
                           last, hist>>

RefreshEnd(h) ==
    /\ inflight[h] # NoToken
    /\ RefreshIssue(inflight[h], inflight[h].claims)
    /\ inflight' = [inflight EXCEPT ![h] = NoToken]

\* Faulty variant: a token is answered valid only while its user has a session.
ServerValidateTokenSession(tok) ==
    /\ LET v == ValidateAccessToken(tok, now) IN
       last' = IF ~v.ok \/ ~GetRefresh(v.claims.UserID).found
               THEN Resp("ValidateToken", "", tok, "none", FALSE, "", "",
                         NoToken, NoToken, 0)
               ELSE Resp("ValidateToken", "", tok, "none", TRUE, v.claims.UserID,
                         v.claims.Email, NoToken, NoToken,
                         v.claims.ExpiresAt - now)
    /\ UNCHANGED <<now, users, refresh, blacklist, inflight, issued, nIssued, hist>>

\* Faulty variant: a token is answered valid only while no token of its user
\* is on the deny-list.
ServerValidateTokenDenyList(tok) ==
    /\ LET v == ValidateAccessToken(tok, now) IN
       last' = IF ~v.ok \/ (\E b \in blacklist : b.tok.claims.UserID = v.claims.UserID)
               THEN Resp("ValidateToken", "", tok, "none", FALSE, "", "",
                         NoToken, NoToken, 0)
               ELSE Resp("ValidateToken", "", tok, "none", TRUE, v.claims.UserID,
                         v.claims.Email, NoToken, NoToken,
                         v.claims.ExpiresAt - now)
    /\ UNCHANGED <<now, users, refresh, blacklist, inflight, issued, nIssued, hist>>

\* The auth server's ValidateToken RPC.
ServerValidateToken(tok) ==
    /\ LET v == ValidateAccessToken(tok, now) IN
       last' = IF ~v.ok
               THEN Resp("ValidateToken", "", tok, "none", FALSE, "", "",
                         NoToken, NoToken, 0)
               ELSE Resp("ValidateToken", "", tok, "none", TRUE, v.claims.UserID,
                         v.claims.Email, NoToken, NoToken,
                         v.claims.ExpiresAt - now)
    /\ UNCHANGED <<now, users, refresh, blacklist, inflight, issued, nIssued, hist>>

\* Faulty variant: a token that does not verify is answered with an error.
LogoutInvalidIsError(tok, d) ==
    LET v == ValidateRefreshToken(tok, now) IN
    IF ~v.ok
    THEN /\ d = 0
         /\ last' = Fail("Logout", "", tok, "InvalidToken")
         /\ UNCHANGED <<now, users, refresh, blacklist, inflight, issued, nIssued, hist>>
    ELSE /\ now + d <= MaxTime
         /\ LET t == now + d
                remainingTTL == v.claims.ExpiresAt - t
                bl == IF remainingTTL > 0
                      THEN SetBlacklist(blacklist, tok, t, remainingTTL)
                      ELSE blacklist
            IN /\ now' = t
               /\ blacklist' = LiveBlacklist(bl, t)
               /\ refresh' = LiveRefresh(DelRefresh(refresh, v.claims.UserID), t)
         /\ last' = Resp("Logout", "", tok, "none", TRUE, "", "", NoToken, NoToken, 0)
         /\ hist' = SawTime(SawLogout(hist, v.claims.UserID, tok), now + d)
         /\ UNCHANGED <<users, inflight, issued, nIssued>>

\* Faulty variant: the deny-list entry gets the full refresh TTL, counted
\* from the Logout.
LogoutFullTTL(tok, d) ==
    LET v == ValidateRefreshToken(tok, now) IN
    IF ~v.ok
    THEN /\ d = 0
         /\ last' = Resp("Logout", "", tok, "none", FALSE, "", "", NoToken, NoToken, 0)
         /\ UNCHANGED <<now, users, refresh, blacklist, inflight, issued, nIssued, hist>>
    ELSE /\ now + d <= MaxTime
         /\ LET t == now + d
                bl == SetBlacklist(blacklist, tok, t, RefreshTokenTTL)
            IN /\ now' = t
               /\ blacklist' = LiveBlacklist(bl, t)
               /\ refresh' = LiveRefresh(DelRefresh(refresh, v.claims.UserID), t)
         /\ last' = Resp("Logout", "", tok, "none", TRUE, "", "", NoToken, NoToken, 0)
         /\ hist' = SawTime(SawLogout(hist, v.claims.UserID, tok), now + d)
         /\ UNCHANGED <<users, inflight, issued, nIssued>>

\* Logout: the token is validated at `now`; time.Until reads the clock
\* again d ticks later.
Logout(tok, d) ==
    LET v == ValidateRefreshToken(tok, now) IN
    IF ~v.ok
    THEN /\ d = 0
         /\ last' = Resp("Logout", "", tok, "none", FALSE, "", "", NoToken, NoToken, 0)
         /\ UNCHANGED <<now, users, refresh, blacklist, inflight, issued, nIssued, hist>>
    ELSE /\ now + d <= MaxTime
         /\ LET t == now + d
                remainingTTL == v.claims.ExpiresAt - t
                bl == IF remainingTTL > 0
                      THEN SetBlacklist(blacklist, tok, t, remainingTTL)
                      ELSE blacklist
            IN /\ now' = t
               /\ blacklist' = LiveBlacklist(bl, t)
               /\ refresh' = LiveRefresh(DelRefresh(refresh, v.claims.UserID), t)
         /\ last' = Resp("Logout", "", tok, "none", TRUE, "", "", NoToken, NoToken, 0)
         /\ hist' = SawTime(SawLogout(hist, v.claims.UserID, tok), now + d)
         /\ UNCHANGED <<users, inflight, issued, nIssued>>

\* Emails are interchangeable: the first account created is a@x.com.
NewEmails == {e \in Emails : e = "a@x.com" \/ users["a@x.com"] # NoUser}

\* Handlers are interchangeable: a Refresh is taken by h1 when h1 is idle.
IdleHandlers ==
    {h \in Handlers : inflight[h] = NoToken
                        /\ (h = "h1" \/ inflight["h1"] # NoToken)}

\* Requests handled one at a time.
Next ==
    \/ Deliver
    \/ Ready /\ Tick
    \/ Ready /\ \E e \in NewEmails, p \in RegPasswords, n \in Names : Register(e, p, n)
    \/ Ready /\ \E e \in Emails, p \in Passwords : Login(e, p)
    \/ Ready /\ \E tok \in Inputs : Refresh(tok)
    \/ Ready /\ \E tok \in Inputs : ServerValidateToken(tok)
    \/ Ready /\ \E tok \in Inputs, d \in 0..MaxDrift : Logout(tok, d)

Spec == Init /\ [][Next]_vars

\* Overlapping handlers: Refresh is two steps, other handlers may run between.
ConcNext ==
    \/ Deliver
    \/ Ready /\ Tick
    \/ Ready /\ \E e \in NewEmails, p \in RegPasswords, n \in Names : Register(e, p, n)
    \/ Ready /\ \E e \in Emails, p \in Passwords : Login(e, p)
    \/ Ready /\ \E h \in IdleHandlers, tok \in Inputs : RefreshBegin(h, tok)
    \/ Ready /\ \E h \in Handlers : RefreshEnd(h)
    \/ Ready /\ \E tok \in Inputs, d \in 0..MaxDrift : Logout(tok, d)

ConcSpec == Init /\ [][ConcNext]_vars

\* ---------------------------------------------------------- token verification
\* A token with the claims of t whose header names alg, signed under alg with
\* the key given (the server's secret for a party that holds it).
WithAlg(t, alg, key) == [t EXCEPT !.alg = alg, !.sig = Sign(alg, key, t.claims)]
OtherAlgs == {"HS384", "HS512", "RS256"}
\* What ValidateToken is driven with: every issued token, a string that is no
\* JWT, the forgeries of the latest pair, and the latest pair re-signed with
\* the server's secret under each other algorithm.
VerifyInputs ==
    Inputs \cup {WithAlg(t, a, Secret) : t \in LatestPair, a \in OtherAlgs}

\* Accounts are created and logged in, time passes, tokens are validated.
VerifyNext ==
    \/ Deliver
    \/ Ready /\ Tick
    \/ Ready /\ \E e \in NewEmails, p \in RegPasswords, n \in Names : Register(e, p, n)
    \/ Ready /\ \E e \in Emails, p \in Passwords : Login(e, p)
    \/ Ready /\ \E tok \in VerifyInputs : ServerValidateToken(tok)

VerifySpec == Init /\ [][VerifyNext]_vars

\* ------------------------------------------------------ dependency failures
\* The handlers when one of their calls to PostgreSQL or Redis returns an
\* error (connection lost, timeout); `at` names the failing call.  Errors
\* whose message names the failed storage step are of class
\* StorageUnavailable; the others carry the message of another failure.
StorageError(op, reqEmail, reqToken) ==
    Fail(op, reqEmail, reqToken, "StorageUnavailable")

\* Lines 34-37, 48-50, 57-60.
RegisterFault(email, password, name, at) ==
    /\ at \in {"ExistsByEmail", "Create", "Set"}
    /\ at # "ExistsByEmail" => ~ExistsByEmail(email)
    /\ last' = StorageError("Register", email, NoToken)
    /\ users' = IF at = "Set"
                THEN Create(users, NewUser(email, password, name))
                ELSE users
    /\ UNCHANGED <<now, refresh, blacklist, inflight, issued, nIssued, hist>>

\* Lines 74-77 (any lookup error is answered "invalid credentials"), 88-91.
LoginFault(email, password, at) ==
    /\ at \in {"GetByEmail", "Set"}
    /\ at = "Set" =>
          GetByEmail(email).found /\ CheckPassword(GetByEmail(email).user, password)
    /\ last' = IF at = "GetByEmail"
               THEN Fail("Login", email, NoToken, "InvalidCredentials")
               ELSE StorageError("Login", email, NoToken)
    /\ UNCHANGED <<now, users, refresh, blacklist, inflight, issued, nIssued, hist>>

\* Lines 105-108, 118-121 (any GET error is answered "refresh token not
\* found"), 131-134.
RefreshFault(tok, at) ==
    /\ at \in {"Exists", "Get", "Set"}
    /\ at = "Get" => ~Blacklisted(tok) /\ ValidateRefreshToken(tok, now).ok
    /\ at = "Set" => RefreshCheck(tok).err = "none"
    /\ last' = IF at = "Get" THEN Fail("Refresh", "", tok, "NotFound")
               ELSE StorageError("Refresh", "", tok)
    /\ UNCHANGED <<now, users, refresh, blacklist, inflight, issued, nIssued, hist>>

\* Faulty variant: refresh:<id> is deleted first, the blacklist key written
\* second.
LogoutFaultDelFirst(tok, at) ==
    LET v == ValidateRefreshToken(tok, now)
        remainingTTL == v.claims.ExpiresAt - now IN
    /\ at \in {"SetBlacklist", "Del"}
    /\ v.ok
    /\ at = "SetBlacklist" => remainingTTL > 0
    /\ last' = StorageError("Logout", "", tok)
    /\ refresh' = IF at = "SetBlacklist"
                  THEN DelRefresh(refresh, v.claims.UserID) ELSE refresh
    /\ UNCHANGED <<now, users, blacklist, inflight, issued, nIssued, hist>>

\* Lines 166-169 (nothing written), 172-175 (the blacklist entry is written,
\* refresh:<id> is kept).
LogoutFault(tok, at) ==
    LET v == ValidateRefreshToken(tok, now)
        remainingTTL == v.claims.ExpiresAt - now IN
    /\ at \in {"SetBlacklist", "Del"}
    /\ v.ok
    /\ at = "SetBlacklist" => remainingTTL > 0
    /\ last' = StorageError("Logout", "", tok)
    /\ blacklist' = IF at = "Del" /\ remainingTTL > 0
                    THEN SetBlacklist(blacklist, tok, now, remainingTTL)
                    ELSE blacklist
    /\ hist' = IF at = "Del" /\ remainingTTL > 0
               THEN [hist EXCEPT !.partial = @ \cup {tok}] ELSE hist
    /\ UNCHANGED <<now, users, refresh, inflight, issued, nIssued>>

\* Requests handled one at a time, dependencies failing at will.
FaultNext ==
    \/ Deliver
    \/ Ready /\ Tick
    \/ Ready /\ \E e \in NewEmails, p \in RegPasswords, n \in Names,
                    at \in {"ExistsByEmail", "Create", "Set"} :
                  RegisterFault(e, p, n, at)
    \/ Ready /\ \E e \in Emails, p \in Passwords, at \in {"GetByEmail", "Set"} :
                  LoginFault(e, p, at)
    \/ Ready /\ \E tok \in Inputs, at \in {"Exists", "Get", "Set"} :
                  RefreshFault(tok, at)
    \/ Ready /\ \E tok \in Inputs, at \in {"SetBlacklist", "Del"} :
                  LogoutFault(tok, at)
    \/ Ready /\ \E e \in NewEmails, p \in RegPasswords, n \in Names : Register(e, p, n)
    \/ Ready /\ \E e \in Emails, p \in Passwords : Login(e, p)
    \/ Ready /\ \E tok \in Inputs : Refresh(tok)
    \/ Ready /\ \E tok \in Inputs, d \in 0..MaxDrift : Logout(tok, d)

FaultSpec == Init /\ [][FaultNext]_vars

\* -------------------------------------------------------------------- gateway
\* An Authorization header after strings.SplitN(authHeader, " ", 2): parts is
\* 0 for an absent (empty) header, 1 when it holds no space, else 2.
Schemes == {"Bearer", "bearer", "BEARER", "Basic"}
ToLower == [s \in Schemes |-> IF s = "Basic" THEN "basic" ELSE "bearer"]
NoHeader == [parts |-> 0, scheme |-> "", token |-> NoToken]
\* The headers requests carry: none, a scheme alone, "Bearer <t>" for every
\* driven string and the empty one, and every scheme with the latest pair.
Headers ==
    {NoHeader}
      \cup {[parts |-> 1, scheme |-> sch, token |-> NoToken] : sch \in Schemes}
      \cup {[parts |-> 2, scheme |-> "Bearer", token |-> t] :
               t \in Inputs \cup {NoToken}}
      \cup {[parts |-> 2, scheme |-> sch, token |-> t] :
               sch \in Schemes, t \in LatestPair}

\* The auth service's answer to the ValidateToken RPC for tok.
ValidateTokenReply(tok) ==
    LET v == ValidateAccessToken(tok, now) IN
    IF ~v.ok THEN [Valid |-> FALSE, UserId |-> "", Email |-> ""]
    ELSE [Valid |-> TRUE, UserId |-> v.claims.UserID, Email |-> v.claims.Email]

\* 401 with no handler call, and the wrapped handler called with the context
\* values userID, email and token.
Unauthorized(tok) ==
    Resp("withAuth", "", tok, "Unauthorized", FALSE, "", "", NoToken, NoToken, 0)
Invoked(tok, userID, email) ==
    Resp("withAuth", "", tok, "none", TRUE, userID, email, NoToken, NoToken, 0)

\* Faulty variant: only the RPC error is looked at, not resp.Valid.
WithAuthIgnoresValid(h, rpcErr) ==
    /\ last' = IF h.parts = 0 THEN Unauthorized(NoToken)
               ELSE IF h.parts # 2 \/ ToLower[h.scheme] # "bearer"
                    THEN Unauthorized(NoToken)
               ELSE LET resp == ValidateTokenReply(h.token) IN
                    IF rpcErr THEN Unauthorized(h.token)
                    ELSE Invoked(h.token, resp.UserId, resp.Email)
    /\ UNCHANGED <<now, users, refresh, blacklist, inflight, issued, nIssued, hist>>

\* withAuth for a request carrying header h; rpcErr: the ValidateToken RPC
\* returned an error (the auth service could not be reached).
WithAuth(h, rpcErr) ==
    /\ last' = IF h.parts = 0 THEN Unauthorized(NoToken)
               ELSE IF h.parts # 2 \/ ToLower[h.scheme] # "bearer"
                    THEN Unauthorized(NoToken)
               ELSE LET resp == ValidateTokenReply(h.token) IN
                    IF rpcErr \/ ~resp.Valid THEN Unauthorized(h.token)
                    ELSE Invoked(h.token, resp.UserId, resp.Email)
    /\ UNCHANGED <<now, users, refresh, blacklist, inflight, issued, nIssued, hist>>

\* Accounts are created and logged in, time passes, requests reach the
\* gateway's protected routes.
GatewayNext ==
    \/ Deliver
    \/ Ready /\ Tick
    \/ Ready /\ \E e \in NewEmails, p \in RegPasswords, n \in Names : Register(e, p, n)
    \/ Ready /\ \E e \in Emails, p \in Passwords : Login(e, p)
    \/ Ready /\ \E h \in Headers, rpcErr \in BOOLEAN : WithAuth(h, rpcErr)

GatewaySpec == Init /\ [][GatewayNext]_vars

\* ================================================================== claims
\* Vocabulary of the claims, stated on the token and the stores themselves.
CorrectlySigned(tok) ==
    tok.segs = 3 /\ tok.sig = Sign(tok.alg, Secret, tok.claims)
Unexpired(tok) == now < tok.claims.ExpiresAt
VerifiesAs(tok, kind) ==
    CorrectlySigned(tok) /\ Unexpired(tok) /\ tok.claims.Type = kind
Revoked(tok) == \E b \in blacklist : b.tok = tok
IsActive(tok) ==
    /\ tok.claims.UserID \in UserIDs
    /\ refresh[tok.claims.UserID] # NoKey
    /\ refresh[tok.claims.UserID].val = tok
Acceptable(tok) == VerifiesAs(tok, "refresh") /\ ~Revoked(tok) /\ IsActive(tok)
NoTokensIn(resp) == resp.AccessToken = NoToken /\ resp.RefreshToken = NoToken

\* C1: a Refresh(T) run as one step succeeds iff T verifies as an unexpired,
\* correctly signed refresh token, is not in revoked, and is the value of
\* activeRefresh for the principal of its claims; otherwise it fails, issues
\* no token and answers none.
C1_RefreshAcceptsIff ==
    [][(Ready /\ last'.op = "Refresh") =>
          \A tok \in {last'.reqToken} :
             Refresh(tok) =>
                /\ (last'.err = "none") <=> Acceptable(tok)
                /\ last'.err # "none" => issued' = issued /\ NoTokensIn(last')
                /\ last'.err = "none" =>
                      /\ last'.RefreshToken \in issued' \ issued
                      /\ last'.AccessToken \in issued' \ issued]_vars

C1_Witness ==
    /\ last.op = "Refresh" /\ last.err = "none"
    /\ refresh[last.reqToken.claims.UserID].val = last.RefreshToken
    /\ Cardinality(issued) >= 4

\* C2: Logout(T) answers success (writes revoked, deletes activeRefresh) only
\* if T verifies as a refresh token, is not in revoked and is the value of
\* activeRefresh for its principal; a superseded token does not delete the
\* principal's current entry.
C2_LogoutAcceptsOnlyActive ==
    [][\A tok \in Strings, d \in 0..MaxDrift :
          (Logout(tok, d) /\ last'.ok) => Acceptable(tok)]_vars

\* C3: after two successive successful Logins of a principal returning R1
\* then R2, Refresh(R1) fails with Mismatch while R1 is unexpired and
\* Refresh(R2) succeeds, whenever the next request is taken.
C3_SecondLoginSupersedes ==
    \A u \in UserIDs :
        (Ready /\ Len(hist.logins[u]) = 2) =>
            /\ Unexpired(hist.logins[u][1]) =>
                   RefreshCheck(hist.logins[u][1]).err = "Mismatch"
            /\ RefreshCheck(hist.logins[u][2]).err = "none"

C3_Witness ==
    /\ last.op = "Refresh" /\ last.err = "Mismatch"
    /\ \E u \in UserIDs :
          Len(hist.logins[u]) = 2 /\ last.reqToken = hist.logins[u][1]

\* C4: once Refresh(T) has succeeded every later Refresh(T) fails, whatever
\* happens in between; while T is unexpired and its principal has not logged
\* out since, the failure is Mismatch.  (A token past its expiry is refused
\* whatever its history.)  Stated of every state in which a request is taken.
C4_RefreshSingleUse ==
    Ready =>
       /\ \A r \in hist.rotated :
             /\ RefreshCheck(r.tok).err # "none"
             /\ (r.tok \in hist.clean /\ Unexpired(r.tok)) =>
                    RefreshCheck(r.tok).err = "Mismatch"
       /\ \A tok \in issued : ~Unexpired(tok) => RefreshCheck(tok).err # "none"

C4_Witness ==
    /\ last.op = "Refresh" /\ last.err = "Mismatch"
    /\ last.reqToken \in hist.clean
    /\ \E r \in hist.rotated : r.tok = last.reqToken

\* C5 as stated: after Logout(T) answered success, Refresh(T) fails with
\* Blacklisted at every instant up to and including T's expiresAt.
C5_BlacklistedThroughExpiry ==
    \A tok \in hist.loggedOut :
        (Ready /\ now <= tok.claims.ExpiresAt)
           => RefreshCheck(tok).err = "Blacklisted"

\* C5 amended: after Logout(T) answered success, Refresh(T) fails with
\* Blacklisted at every instant before T's expiresAt, and T is never again
\* accepted (from expiresAt on it no longer verifies and the answer is
\* InvalidToken).  The state part is stated where the next request is taken.
C5_BlacklistedWhileValid ==
    /\ Ready =>
          /\ \A tok \in hist.loggedOut :
                /\ Unexpired(tok) => RefreshCheck(tok).err = "Blacklisted"
                /\ RefreshCheck(tok).err # "none"
          /\ \A tok \in issued : ~Unexpired(tok) => ~Acceptable(tok)
    /\ (last.op = "Refresh" /\ last.reqToken \in hist.loggedOut)
       => last.err = IF Unexpired(last.reqToken) THEN "Blacklisted"
                     ELSE "InvalidToken"

C5_Witness ==
    /\ last.op = "Refresh" /\ last.err = "Blacklisted"
    /\ last.reqToken \in hist.loggedOut
\* C6: once a Logout of principal p has answered success, activeRefresh[p]
\* stays absent until a Login or Register of p, also when a Refresh of p was
\* between its stored-value check and its write while the Logout ran.
C6_LogoutTerminal ==
    \A u \in UserIDs : hist.terminal[u] => refresh[u] = NoKey

\* C7: when two overlapping Refresh(T) calls both succeed, returning Ra and
\* Rb, activeRefresh[p] holds the token of the call that wrote last, the
\* other returned token is refused with Mismatch (while unexpired and not
\* logged out), at most one of the two is accepted, a handler past its check
\* can always complete, and activeRefresh[p] is always absent or one issued
\* refresh token of p.
Raced == {pr \in hist.rotated \X hist.rotated :
             pr[1].tok = pr[2].tok /\ pr[1].new # pr[2].new}
C7_ConcurrentRefresh ==
    /\ (last.op = "Refresh" /\ last.err = "none") =>
          refresh[last.reqToken.claims.UserID].val = last.RefreshToken
    /\ Ready =>
          \A pr \in Raced :
             /\ ~(Acceptable(pr[1].new) /\ Acceptable(pr[2].new))
             /\ (IsActive(pr[2].new) /\ Unexpired(pr[1].new)
                   /\ pr[1].new \notin hist.loggedOut)
                => RefreshCheck(pr[1].new).err = "Mismatch"
    /\ \A u \in UserIDs :
          refresh[u] # NoKey =>
             /\ refresh[u].val \in issued
             /\ refresh[u].val.claims.Type = "refresh"
             /\ refresh[u].val.claims.UserID = u
    /\ \A h \in Handlers :
          (Ready /\ inflight[h] # NoToken) => ENABLED RefreshEnd(h)

C7_Witness ==
    /\ last.op = "Refresh" /\ last.err = "Mismatch"
    /\ \E pr \in Raced : last.reqToken = pr[1].new /\ IsActive(pr[2].new)

\* C8: whenever a request is taken, for every principal at most one string
\* would be accepted by Refresh, and it is the refresh token issued last for
\* that principal.
RefreshTokensOf(u) ==
    {t \in issued : t.claims.Type = "refresh" /\ t.claims.UserID = u}
Accepted(t) == RefreshCheck(t).err = "none"
AcceptedFor(u) == {t \in Strings : t.claims.UserID = u /\ Accepted(t)}
C8_SingleSession ==
    Ready =>
       \A u \in UserIDs :
          /\ Cardinality(AcceptedFor(u)) <= 1
          /\ \A t \in AcceptedFor(u) :
                /\ t \in RefreshTokensOf(u)
                /\ \A o \in RefreshTokensOf(u) : o.claims.ID <= t.claims.ID

C8_Witness ==
    /\ last.op = "Refresh" /\ last.err = "none"
    /\ \E u \in UserIDs :
          /\ AcceptedFor(u) = {last.RefreshToken}
          /\ Cardinality({t \in RefreshTokensOf(u) : Unexpired(t)}) >= 3

\* C9: an access token issued by Register, Login or Refresh is answered
\* valid:true at every instant before its expiresAt, whatever Login, Refresh
\* and Logout did to the session of its principal since.
C9_AccessIndependentOfSession ==
    /\ \A a \in issued :
          (a.claims.Type = "access" /\ Unexpired(a)) =>
              ValidateAccessToken(a, now).ok
    /\ (last.op = "ValidateToken" /\ last.reqToken \in issued
          /\ last.reqToken.claims.Type = "access" /\ Unexpired(last.reqToken))
       => last.ok

C9_Witness ==
    /\ last.op = "ValidateToken" /\ last.ok
    /\ hist.terminal[last.UserId]
    /\ refresh[last.UserId] = NoKey
    /\ \E r \in hist.loggedOut : r.claims.ID = last.reqToken.claims.ID + 1

\* C10: ValidateToken never returns an error; it answers valid:true with the
\* token's own principal id and email exactly when the token is a correctly
\* signed, unexpired access token, and valid:false with no identity fields
\* otherwise (malformed, tampered, expired, refresh kind).
C10_ValidateNeverErrors ==
    last.op = "ValidateToken" =>
        /\ last.err = "none"
        /\ last.ok <=> VerifiesAs(last.reqToken, "access")
        /\ last.ok => /\ last.UserId = last.reqToken.claims.UserID
                      /\ last.Email = last.reqToken.claims.Email
        /\ ~last.ok => last.UserId = "" /\ last.Email = "" /\ last.ExpiresIn = 0
        /\ NoTokensIn(last)

C10_Witness ==
    /\ last.op = "ValidateToken" /\ ~last.ok
    /\ CorrectlySigned(last.reqToken)
    /\ last.reqToken.claims.Type = "access"
    /\ ~Unexpired(last.reqToken)

\* C11: ValidateToken accepts a token only if its header names HS256, the
\* algorithm GenerateTokenPair signs with; a token naming any other algorithm
\* is answered valid:false, also when it is signed with the server's secret.
C11_AlgorithmPinned ==
    (last.op = "ValidateToken" /\ last.ok) => last.reqToken.alg = "HS256"

\* C12: once Register(e, ...) has succeeded, every later Register(e, any
\* password, any name) fails with AlreadyExists, creates no principal, issues
\* no token and leaves the session store as it was.
C12_RegisterTwiceFails ==
    [][(Ready /\ last'.op = "Register") =>
          \A e \in Emails, p \in Passwords, n \in Names \cup {"Z"} :
             (users[e] # NoUser /\ Register(e, p, n)) =>
                /\ last'.err = "AlreadyExists" /\ ~last'.ok
                /\ NoTokensIn(last') /\ last'.UserId = ""
                /\ users' = users /\ issued' = issued
                /\ refresh' = refresh /\ blacklist' = blacklist]_vars

C12_Witness ==
    /\ last.op = "Register" /\ last.err = "AlreadyExists"
    /\ users[last.reqEmail] # NoUser
    /\ refresh[UserIDOf[last.reqEmail]] # NoKey
    /\ Cardinality(issued) >= 4

\* C13: a failed Login answers the same whether the email is unknown or the
\* password is wrong: the InvalidCredentials error with every response field
\* zero (the answer is a function of the request alone), and the users table
\* and both stores are left as they were.
C13_LoginFailureUniform ==
    [][(Ready /\ last'.op = "Login") =>
          \A e \in Emails, p \in Passwords :
             (Login(e, p) /\ (users[e] = NoUser \/ ~CheckPassword(users[e], p))) =>
                /\ last' = Fail("Login", e, NoToken, "InvalidCredentials")
                /\ users' = users /\ issued' = issued
                /\ refresh' = refresh /\ blacklist' = blacklist]_vars

\* A wrong password for a known email with a live session, while another
\* email is unknown.
C13_Witness ==
    /\ last.op = "Login" /\ last.err = "InvalidCredentials"
    /\ users[last.reqEmail] # NoUser
    /\ refresh[UserIDOf[last.reqEmail]] # NoKey
    /\ \E e \in Emails : users[e] = NoUser

\* C14: for every principal id and email, at every instant before expiry,
\* verifying the access token of GenerateTokenPair(id, email) yields that id
\* and email with Type access, verifying the refresh token yields them with
\* Type refresh; the access token is refused by ValidateRefreshToken and the
\* refresh token by ValidateAccessToken.  Stated of the pair generated in
\* the current state and of every pair a handler has returned.
RoundTrips(pair, id, email, t) ==
    /\ t < pair.access.claims.ExpiresAt =>
          /\ ValidateToken(pair.access, t).ok
          /\ ValidateAccessToken(pair.access, t).ok
          /\ ValidateAccessToken(pair.access, t).claims.UserID = id
          /\ ValidateAccessToken(pair.access, t).claims.Email = email
          /\ ValidateAccessToken(pair.access, t).claims.Type = "access"
          /\ ~ValidateRefreshToken(pair.access, t).ok
    /\ t < pair.refresh.claims.ExpiresAt =>
          /\ ValidateToken(pair.refresh, t).ok
          /\ ValidateRefreshToken(pair.refresh, t).ok
          /\ ValidateRefreshToken(pair.refresh, t).claims.UserID = id
          /\ ValidateRefreshToken(pair.refresh, t).claims.Email = email
          /\ ValidateRefreshToken(pair.refresh, t).claims.Type = "refresh"
          /\ ~ValidateAccessToken(pair.refresh, t).ok
C14_TokenRoundTrip ==
    /\ \A id \in UserIDs, email \in Emails, t \in now..(now + RefreshTokenTTL) :
          RoundTrips(GenerateTokenPair(id, email, now, now, now, now,
                                       2 * nIssued + 1, 2 * nIssued + 2),
                     id, email, t)
    /\ (last.op \in {"Register", "Login"} /\ last.ok) =>
          RoundTrips([access |-> last.AccessToken, refresh |-> last.RefreshToken],
                     last.UserId, last.Email, now)
    /\ (last.op = "ValidateToken" /\ last.reqToken \in issued
          /\ last.reqToken.claims.Type = "access" /\ Unexpired(last.reqToken))
       => /\ last.ok
          /\ last.UserId = UserIDOf[last.Email]
          /\ users[last.Email] # NoUser

\* The access token returned to the second account is verified after a later
\* pair was issued and answers that account's id and email.
C14_Witness ==
    /\ last.op = "ValidateToken" /\ last.ok
    /\ last.reqToken \in issued \ LatestPair
    /\ last.UserId = "u2" /\ last.Email = "b@x.com"

\* C15: every successful Login and Register leaves refresh:<id> holding
\* exactly the refresh token it returns, expiring one refresh lifetime later,
\* whatever the key held before (nothing, a live token, a rotated one, or
\* nothing after a Logout that blacklisted the old token); a Refresh with the
\* returned token that follows at once is accepted.
C15_LoginStoresReturnedToken ==
    (last.op \in {"Register", "Login"} /\ last.ok) =>
        /\ last.UserId = UserIDOf[last.reqEmail]
        /\ refresh[last.UserId] =
              [val |-> last.RefreshToken, exp |-> now + RefreshTokenTTL]
        /\ last.RefreshToken.claims.Type = "refresh"
        /\ RefreshCheck(last.RefreshToken).err = "none"

\* A Login at a later instant of a principal that logged out, its old token
\* still in the blacklist.
C15_Witness ==
    /\ last.op = "Login" /\ last.ok
    /\ \E b \in blacklist :
          /\ b.tok.claims.UserID = last.UserId
          /\ b.tok.claims.IssuedAt < now

\* C16: the handler wrapped by withAuth is invoked iff the request carries an
\* Authorization header of the form Bearer <token> (scheme in any letter
\* case) and ValidateToken answered valid:true without error for that token;
\* otherwise the request is answered 401 and the handler is not invoked.
\* When invoked the handler sees the id and email of the token's claims.
BearerForm(h) == h.parts = 2 /\ h.scheme \in {"Bearer", "bearer", "BEARER"}
C16_GatewayGate ==
    [][(Ready /\ last'.op = "withAuth") =>
          \A h \in Headers, rpcErr \in BOOLEAN :
             WithAuth(h, rpcErr) =>
                /\ last'.ok <=>
                      (BearerForm(h) /\ ~rpcErr /\ VerifiesAs(h.token, "access"))
                /\ ~last'.ok =>
                      /\ last'.err = "Unauthorized"
                      /\ last'.UserId = "" /\ last'.Email = ""
                /\ last'.ok =>
                      /\ last'.err = "none"
                      /\ last'.reqToken = h.token
                      /\ last'.UserId = h.token.claims.UserID
                      /\ last'.Email = h.token.claims.Email
                      /\ users[last'.Email] # NoUser]_vars

\* The handler is invoked for the access token of the second account, after
\* a later pair was issued.
C16_Witness ==
    /\ last.op = "withAuth" /\ last.ok
    /\ last.UserId = "u2" /\ last.Email = "b@x.com"
    /\ last.reqToken \in issued \ LatestPair

\* C17: a credential-store or session-store error during Register, Login,
\* Refresh or Logout is answered with StorageUnavailable: a lookup error
\* during Login is not answered InvalidCredentials, a read error during
\* Refresh is not answered NotFound.
C17_DependencyErrorsKeepClass ==
    [][(Ready /\ last'.op \in {"Register", "Login", "Refresh", "Logout"}) =>
          /\ \A e \in Emails, p \in Passwords, n \in Names,
                at \in {"ExistsByEmail", "Create", "Set"} :
                RegisterFault(e, p, n, at) => last'.err = "StorageUnavailable"
          /\ \A e \in Emails, p \in Passwords, at \in {"GetByEmail", "Set"} :
                LoginFault(e, p, at) => last'.err = "StorageUnavailable"
          /\ \A tok \in Inputs, at \in {"Exists", "Get", "Set"} :
                RefreshFault(tok, at) => last'.err = "StorageUnavailable"
          /\ \A tok \in Inputs, at \in {"SetBlacklist", "Del"} :
                LogoutFault(tok, at) => last'.err = "StorageUnavailable"]_vars

\* C18: every successful Refresh leaves refresh:<id> holding the refresh
\* token it returns, which differs from the one presented; and while no
\* Login, Logout or other Refresh of the principal has come since and the
\* returned token has not expired, a Refresh presenting it is accepted.
NewestOf(u) ==
    {t \in RefreshTokensOf(u) : \A o \in RefreshTokensOf(u) : o.claims.ID <= t.claims.ID}
C18_RotationChain ==
    /\ (last.op = "Refresh" /\ last.err = "none") =>
          /\ refresh[last.reqToken.claims.UserID].val = last.RefreshToken
          /\ last.RefreshToken # last.reqToken
          /\ last.RefreshToken.claims.Type = "refresh"
          /\ RefreshCheck(last.RefreshToken).err = "none"
    /\ Ready =>
          \A r \in hist.rotated :
             LET u == r.tok.claims.UserID IN
             (r.new \in NewestOf(u) /\ ~hist.terminal[u] /\ Unexpired(r.new))
                => RefreshCheck(r.new).err = "none"

\* The second link of a chain: a Refresh accepted for the token that the
\* previous Refresh returned, at a later instant.
C18_Witness ==
    /\ last.op = "Refresh" /\ last.err = "none"
    /\ \E r \in hist.rotated : r.new = last.reqToken /\ r.new.claims.IssuedAt < now

\* C19: a Refresh answers with the first failing check in the order
\* Blacklisted, InvalidToken, NotFound, Mismatch, judged on the state the
\* request found: a revoked token is refused as Blacklisted whatever the
\* stored entry is, and a token that does not verify as a refresh token is
\* refused as InvalidToken whether or not an entry exists.
HasEntry(u) == u \in UserIDs /\ refresh[u] # NoKey
FirstFailing(tok) ==
    IF Revoked(tok) THEN "Blacklisted"
    ELSE IF ~VerifiesAs(tok, "refresh") THEN "InvalidToken"
    ELSE IF ~HasEntry(tok.claims.UserID) THEN "NotFound"
    ELSE IF refresh[tok.claims.UserID].val # tok THEN "Mismatch"
    ELSE "none"
C19_FirstFailingCheck ==
    [][(Ready /\ last'.op = "Refresh") => last'.err = FirstFailing(last'.reqToken)]_vars

\* A revoked token whose principal has a different stored token is refused
\* as Blacklisted, not as Mismatch.
C19_Witness ==
    /\ last.op = "Refresh" /\ last.err = "Blacklisted"
    /\ HasEntry(last.reqToken.claims.UserID)
    /\ refresh[last.reqToken.claims.UserID].val # last.reqToken

\* C20: a blacklist key is written only by a successful Logout; Register,
\* Login, Refresh (accepted or refused) and ValidateToken leave the blacklist
\* as it was; after an accepted Refresh the superseded token has no
\* blacklist key and Refresh refuses it all the same.
C20_OnlyLogoutRevokes ==
    [][/\ (blacklist' \ blacklist # {}) => (last'.op = "Logout" /\ last'.ok)
       /\ (Ready /\ last'.op \in {"Register", "Login", "Refresh", "ValidateToken"})
             => blacklist' = blacklist
       /\ (Ready /\ last'.op = "Refresh" /\ last'.err = "none")
             => /\ ~(Revoked(last.reqToken))'
                /\ (RefreshCheck(last.reqToken).err)' = "Mismatch"]_vars

\* A superseded token presented again, with nothing ever blacklisted: it is
\* refused by the comparison with the stored value.
C20_Witness ==
    /\ last.op = "Refresh" /\ last.err = "Mismatch"
    /\ \E r \in hist.rotated : r.tok = last.reqToken
    /\ ~Revoked(last.reqToken)
    /\ blacklist = {}

\* C21: a Logout whose token does not verify as a refresh token (no JWT, bad
\* signature, expired, or an access token) answers success:false without an
\* error and leaves every refresh:<id> key and the blacklist as they were.
C21_LogoutSoftFailure ==
    [][(Ready /\ last'.op = "Logout" /\ ~VerifiesAs(last'.reqToken, "refresh"))
          => /\ ~last'.ok /\ last'.err = "none"
             /\ refresh' = refresh /\ blacklist' = blacklist /\ now' = now]_vars

\* An access token presented to Logout while its principal has a session
\* and some other token is blacklisted: answered success:false.
C21_Witness ==
    /\ last.op = "Logout" /\ ~last.ok /\ last.err = "none"
    /\ last.reqToken \in issued /\ last.reqToken.claims.Type = "access"
    /\ Unexpired(last.reqToken)
    /\ HasEntry(last.reqToken.claims.UserID)
    /\ blacklist # {}

\* C22: Logout never answers with an error; a successful Logout(T) leaves no
\* refresh:<id> key for T's principal and, while T is unexpired, exactly one
\* blacklist key for T, expiring at T's own expiry; and a Logout(T) that
\* follows a successful Logout(T), with no Login or Register of the principal
\* in between, leaves both stores as they were up to keys that expired
\* meanwhile.
EntriesOf(store, tok) == {b \in store : b.tok = tok}
ExpiryEmails == {"a@x.com"}
ExpiryNext ==
    \/ Deliver
    \/ Tick
    \/ Ready /\ \E e \in ExpiryEmails, p \in RegPasswords, n \in Names : Register(e, p, n)
    \/ Ready /\ \E e \in ExpiryEmails, p \in RegPasswords : Login(e, p)
    \/ Ready /\ \E tok \in issued : Refresh(tok)
    \/ Ready /\ \E tok \in issued, d \in 0..MaxDrift : Logout(tok, d)

ExpirySpec == Init /\ [][ExpiryNext]_vars /\ WF_vars(Tick)

\* C23: every blacklist key belongs to a refresh token for which Logout
\* succeeded, expires exactly at that token's own expiry and is absent once
\* that instant is reached; there are never more keys than unexpired
\* logged-out tokens; and every key whose expiry the clock can reach is
\* removed as time advances.
LoggedOutUnexpired == {t \in hist.loggedOut : Unexpired(t)}
C23_Inv ==
    /\ \A b \in blacklist :
          /\ b.exp = b.tok.claims.ExpiresAt
          /\ now < b.exp
          /\ b.tok \in LoggedOutUnexpired
          /\ b.tok.claims.Type = "refresh"
          /\ EntriesOf(blacklist, b.tok) = {b}
    /\ Cardinality(blacklist) <= Cardinality(LoggedOutUnexpired)
C23_SelfCleaning ==
    /\ []C23_Inv
    /\ \A x \in 1..MaxTime :
          (\E b \in blacklist : b.exp = x) ~> (\A b \in blacklist : b.exp # x)

\* A token was logged out before its expiry, the clock has reached that
\* expiry, and its key is gone.
C23_Witness ==
    \E t \in hist.loggedOut :
       /\ now = t.claims.ExpiresAt
       /\ EntriesOf(blacklist, t) = {}
       /\ t.claims.IssuedAt < now

\* ------------------------------------------------- clock reads of one handler
\* A handler that issues a pair reads the clock four times in
\* GenerateTokenPair (c[1]..c[4]) and Redis stamps the SET that follows
\* (c[5]).  The first read is made at `now`; the clock may advance once
\* between two successive readings, by at most MaxDrift.
ClockReads ==
    {c \in [1..5 -> now..(now + MaxDrift)] :
        /\ c[5] <= MaxTime
        /\ c[1] = now
        /\ \A i \in 1..4 : c[i] <= c[i + 1]
        /\ Cardinality({i \in 1..4 : c[i] < c[i + 1]}) <= 1}
NoDrift(c) == \A i \in 1..5 : c[i] = now

\* Lines 52-70 / 83-101 / 126-141 under the clock readings c.
IssueAndStoreAt(op, reqEmail, reqToken, userID, email, c) ==
    /\ LET pair == GenerateTokenPair(userID, email, c[1], c[2], c[3], c[4],
                                     2 * nIssued + 1, 2 * nIssued + 2) IN
       /\ refresh' = LiveRefresh(SetRefresh(refresh, userID, pair.refresh, c[5],
                                            RefreshTokenTTL), c[5])
       /\ issued' = issued \cup {pair.access, pair.refresh}
       /\ nIssued' = nIssued + 1
       /\ last' = Resp(op, reqEmail, reqToken, "none", TRUE,
                       IF op = "Refresh" THEN "" ELSE userID,
                       IF op = "Refresh" THEN "" ELSE email,
                       pair.access, pair.refresh, 0)
    /\ now' = c[5]
    /\ blacklist' = LiveBlacklist(blacklist, c[5])

RegisterAt(email, password, name, c) ==
    IF ExistsByEmail(email)
    THEN /\ NoDrift(c)
         /\ last' = Fail("Register", email, NoToken, "AlreadyExists")
         /\ UNCHANGED <<now, users, refresh, blacklist, inflight, issued, nIssued, hist>>
    ELSE LET user == NewUser(email, password, name)
         IN /\ Budget
            /\ users' = Create(users, user)
            /\ IssueAndStoreAt("Register", email, NoToken, user.ID, user.Email, c)
            /\ hist' = SawTime(SawRegister(hist, user.ID), c[5])
            /\ UNCHANGED inflight

LoginAt(email, password, c) ==
    LET got == GetByEmail(email)
        user == got.user IN
    IF ~got.found \/ ~CheckPassword(user, password)
    THEN /\ NoDrift(c)
         /\ last' = Fail("Login", email, NoToken, "InvalidCredentials")
         /\ UNCHANGED <<now, users, refresh, blacklist, inflight, issued, nIssued, hist>>
    ELSE /\ Budget
         /\ IssueAndStoreAt("Login", email, NoToken, user.ID, user.Email, c)
         /\ hist' = SawTime(SawLogin(hist, user.ID, last'.RefreshToken), c[5])
         /\ UNCHANGED <<users, inflight>>

\* The checks of Refresh are made at `now`, before the first clock read of
\* GenerateTokenPair.
RefreshAt(tok, c) ==
    LET chk == RefreshCheck(tok) IN
    IF chk.err # "none"
    THEN /\ NoDrift(c)
         /\ last' = Fail("Refresh", "", tok, chk.err)
         /\ UNCHANGED <<now, users, refresh, blacklist, inflight, issued, nIssued, hist>>
    ELSE /\ Budget
         /\ IssueAndStoreAt("Refresh", "", tok, chk.claims.UserID, chk.claims.Email, c)
         /\ hist' = SawTime(SawRefresh(hist, chk.claims.UserID, tok,
                                       last'.RefreshToken), c[5])
         /\ UNCHANGED <<users, inflight>>

\* Driven with the refresh tokens handed out so far.
IssuedRefresh == {t \in issued : t.claims.Type = "refresh"}
DriftNext ==
    \/ Deliver
    \/ Ready /\ Tick
    \/ Ready /\ \E e \in ExpiryEmails, p \in RegPasswords, n \in Names, c \in ClockReads :
                    RegisterAt(e, p, n, c)
    \/ Ready /\ \E e \in ExpiryEmails, p \in RegPasswords, c \in ClockReads : LoginAt(e, p, c)
    \/ Ready /\ \E tok \in IssuedRefresh, c \in ClockReads : RefreshAt(tok, c)
    \/ Ready /\ \E tok \in IssuedRefresh, d \in 0..MaxDrift : Logout(tok, d)

DriftSpec == Init /\ [][DriftNext]_vars

\* C24: Refresh and Logout accept a token only if its expiry has not been
\* reached when they validate it, whatever the stores hold: an expired
\* token that is still the value of refresh:<id> (the key's TTL runs from
\* the SET, later than the token's clock read) is refused as InvalidToken,
\* and so is a logged-out token once its blacklist key has expired.
C24_ExpiredNeverAccepted ==
    [][/\ (Ready /\ last'.op \in {"Refresh", "Logout"} /\ last'.ok)
             => now < last'.reqToken.claims.ExpiresAt
       /\ (Ready /\ last'.op = "Refresh" /\ ~Unexpired(last'.reqToken))
             => last'.err = "InvalidToken"
       /\ (Ready /\ last'.op = "Logout" /\ ~Unexpired(last'.reqToken))
             => (~last'.ok /\ refresh' = refresh /\ blacklist' = blacklist)]_vars

\* A Refresh refused as InvalidToken for an expired token that refresh:<id>
\* still holds.
C24_Witness ==
    /\ last.op = "Refresh" /\ last.err = "InvalidToken"
    /\ last.reqToken \in issued
    /\ ~Unexpired(last.reqToken)
    /\ IsActive(last.reqToken)

\* C27: every token handed out has ExpiresAt = IssuedAt + the TTL configured
\* for its kind, also when the clock advances between the clock reads of
\* GenerateTokenPair.
TTLOf(kind) == IF kind = "access" THEN AccessTokenTTL ELSE RefreshTokenTTL
C27_ExpiryIsIssuedPlusTTL ==
    \A t \in issued : t.claims.ExpiresAt = t.claims.IssuedAt + TTLOf(t.claims.Type)

\* C25: no refresh:<id> value and no blacklist key is an access token; a
\* ValidateToken call writes neither store; and its answer is determined by
\* the token and the instant alone (signature, expiry, kind), so it is the
\* same whatever the stores hold.
StatelessAnswer(tok, t) ==
    IF CorrectlySigned(tok) /\ t < tok.claims.ExpiresAt /\ tok.claims.Type = "access"
    THEN Resp("ValidateToken", "", tok, "none", TRUE, tok.claims.UserID,
              tok.claims.Email, NoToken, NoToken, tok.claims.ExpiresAt - t)
    ELSE Resp("ValidateToken", "", tok, "none", FALSE, "", "", NoToken, NoToken, 0)
NoAccessTokenStored ==
    /\ \A u \in UserIDs : refresh[u] # NoKey => refresh[u].val.claims.Type = "refresh"
    /\ \A b \in blacklist : b.tok.claims.Type = "refresh"
C25_AccessTokensStateless ==
    /\ []NoAccessTokenStored
    /\ [][(Ready /\ last'.op = "ValidateToken")
             => /\ last' = StatelessAnswer(last'.reqToken, now)
                /\ refresh' = refresh /\ blacklist' = blacklist]_vars

\* An access token answered valid while refresh:<id> of its principal holds
\* a token of a later pair and the deny-list is not empty.
C25_Witness ==
    /\ last.op = "ValidateToken" /\ last.ok
    /\ HasEntry(last.UserId)
    /\ refresh[last.UserId].val.claims.ID > last.reqToken.claims.ID + 1
    /\ blacklist # {}

\* ------------------------------------------------- handlers, call by call
\* Each handler run one dependency call at a time.  A step runs the handler
\* up to and including its next call to PostgreSQL or Redis, which returns
\* a result (ok) or an error (connection lost, deadline exceeded), or up to
\* its return.  The position in the handler is the number of calls that
\* have returned without error.  The clock stands still: it decides the
\* calls of a handler only through the expiry of the token presented, and a
\* string that fails verification is among the requests.
Running == last.err = "running"
OkCalls == Cardinality({i \in DOMAIN hist.calls : hist.calls[i].ok})
Called(site, ok) == Append(hist.calls, [site |-> site, ok |-> ok])

Start(op, email, tok) ==
    /\ Ready
    /\ op \in {"Register", "Login", "Refresh"} => Budget
    /\ last' = Fail(op, email, tok, "running")
    /\ UNCHANGED <<now, users, refresh, blacklist, inflight, issued, nIssued, hist>>

\* The response of a handler that has returned is handed back; the record
\* of its calls ends with it.
DeliverCalls ==
    /\ ~Ready /\ ~Running
    /\ last' = NoResp
    /\ hist' = [hist EXCEPT !.calls = <<>>]
    /\ UNCHANGED <<now, users, refresh, blacklist, inflight, issued, nIssued>>

\* Faulty variant: a call that fails for the first time is made again.
OnErrorRetry(op, email, tok, site, err) ==
    /\ last' = IF \A i \in DOMAIN hist.calls : hist.calls[i].ok
               THEN last ELSE Fail(op, email, tok, err)
    /\ hist' = [hist EXCEPT !.calls = Called(site, FALSE)]
    /\ UNCHANGED <<now, users, refresh, blacklist, inflight, issued, nIssued>>

\* `if err != nil { return nil, ... }` after the call at `site`.
OnError(op, email, tok, site, err) ==
    /\ last' = Fail(op, email, tok, err)
    /\ hist' = [hist EXCEPT !.calls = Called(site, FALSE)]
    /\ UNCHANGED <<now, users, refresh, blacklist, inflight, issued, nIssued>>

\* The call at `site` returned a result and the handler returns resp.
Return(resp, site) ==
    /\ last' = resp
    /\ hist' = [hist EXCEPT !.calls = Called(site, TRUE)]
    /\ UNCHANGED <<now, users, refresh, blacklist, inflight, issued, nIssued>>

\* The call at `site` returned a result and the handler goes on.
Continue(site) == Return(last, site)

\* Faulty variant: when the SET fails the account just created is removed.
RegisterStepRollback(ok) ==
    /\ Running /\ last.op = "Register"
    /\ LET email == last.reqEmail IN
       IF OkCalls = 0
       THEN IF ~ok THEN OnError("Register", email, NoToken, "ExistsByEmail",
                               "StorageUnavailable")
            ELSE IF ExistsByEmail(email)
                 THEN Return(Fail("Register", email, NoToken, "AlreadyExists"),
                             "ExistsByEmail")
                 ELSE Continue("ExistsByEmail")
       ELSE IF OkCalls = 1
       THEN IF ~ok THEN OnError("Register", email, NoToken, "Create",
                               "StorageUnavailable")
            ELSE /\ \E p \in RegPasswords, n \in Names :
                      users' = Create(users, NewUser(email, p, n))
                 /\ hist' = [hist EXCEPT !.calls = Called("Create", TRUE)]
                 /\ UNCHANGED <<now, refresh, blacklist, inflight, issued, nIssued, last>>
       ELSE IF ~ok
            THEN /\ last' = Fail("Register", email, NoToken, "StorageUnavailable")
                 /\ hist' = [hist EXCEPT !.calls = Called("Set", FALSE)]
                 /\ users' = [users EXCEPT ![email] = NoUser]
                 /\ UNCHANGED <<now, refresh, blacklist, inflight, issued, nIssued>>
            ELSE /\ IssueAndStore("Register", email, NoToken, users[email].ID, email)
                 /\ hist' = [SawRegister(hist, users[email].ID)
                                EXCEPT !.calls = Called("Set", TRUE)]
                 /\ UNCHANGED <<now, users, blacklist, inflight>>

\* Lines 34-41, 43-50, 52-70.
RegisterStep(ok) ==
    /\ Running /\ last.op = "Register"
    /\ LET email == last.reqEmail IN
       IF OkCalls = 0
       THEN IF ~ok THEN OnError("Register", email, NoToken, "ExistsByEmail",
                               "StorageUnavailable")
            ELSE IF ExistsByEmail(email)
                 THEN Return(Fail("Register", email, NoToken, "AlreadyExists"),
                             "ExistsByEmail")
                 ELSE Continue("ExistsByEmail")
       ELSE IF OkCalls = 1
       THEN IF ~ok THEN OnError("Register", email, NoToken, "Create",
                               "StorageUnavailable")
            ELSE /\ \E p \in RegPasswords, n \in Names :
                      users' = Create(users, NewUser(email, p, n))
                 /\ hist' = [hist EXCEPT !.calls = Called("Create", TRUE)]
                 /\ UNCHANGED <<now, refresh, blacklist, inflight, issued, nIssued, last>>
       ELSE IF ~ok THEN OnError("Register", email, NoToken, "Set", "StorageUnavailable")
            ELSE /\ IssueAndStore("Register", email, NoToken, users[email].ID, email)
                 /\ hist' = [SawRegister(hist, users[email].ID)
                                EXCEPT !.calls = Called("Set", TRUE)]
                 /\ UNCHANGED <<now, users, blacklist, inflight>>

\* Lines 74-81, 83-101.
LoginStep(ok) ==
    /\ Running /\ last.op = "Login"
    /\ LET email == last.reqEmail
           got == GetByEmail(email) IN
       IF OkCalls = 0
       THEN IF ~ok THEN OnError("Login", email, NoToken, "GetByEmail",
                               "InvalidCredentials")
            ELSE \E p \in Passwords :
                    IF ~got.found \/ ~CheckPassword(got.user, p)
                    THEN Return(Fail("Login", email, NoToken, "InvalidCredentials"),
                                "GetByEmail")
                    ELSE Continue("GetByEmail")
       ELSE IF ~ok THEN OnError("Login", email, NoToken, "Set", "StorageUnavailable")
            ELSE /\ IssueAndStore("Login", email, NoToken, got.user.ID, got.user.Email)
                 /\ hist' = [SawLogin(hist, got.user.ID, last'.RefreshToken)
                                EXCEPT !.calls = Called("Set", TRUE)]
                 /\ UNCHANGED <<now, users, blacklist, inflight>>

\* Lines 105-116, 118-124, 126-141.
RefreshStep(ok) ==
    /\ Running /\ last.op = "Refresh"
    /\ LET tok == last.reqToken
           v == ValidateRefreshToken(tok, now)
           g == GetRefresh(v.claims.UserID) IN
       IF OkCalls = 0
       THEN IF ~ok THEN OnError("Refresh", "", tok, "Exists", "StorageUnavailable")
            ELSE IF Blacklisted(tok)
                 THEN Return(Fail("Refresh", "", tok, "Blacklisted"), "Exists")
            ELSE IF ~v.ok
                 THEN Return(Fail("Refresh", "", tok, "InvalidToken"), "Exists")
            ELSE Continue("Exists")
       ELSE IF OkCalls = 1
       THEN IF ~ok THEN OnError("Refresh", "", tok, "Get", "NotFound")
            ELSE IF ~g.found
                 THEN Return(Fail("Refresh", "", tok, "NotFound"), "Get")
            ELSE IF g.val # tok
                 THEN Return(Fail("Refresh", "", tok, "Mismatch"), "Get")
            ELSE Continue("Get")
       ELSE IF ~ok THEN OnError("Refresh", "", tok, "Set", "StorageUnavailable")
            ELSE /\ IssueAndStore("Refresh", "", tok, v.claims.UserID, v.claims.Email)
                 /\ hist' = [SawRefresh(hist, v.claims.UserID, tok, last'.RefreshToken)
                                EXCEPT !.calls = Called("Set", TRUE)]
                 /\ UNCHANGED <<now, users, blacklist, inflight>>

\* Lines 159-162, 164-170, 172-177.
LogoutStep(ok) ==
    /\ Running /\ last.op = "Logout"
    /\ LET tok == last.reqToken
           v == ValidateRefreshToken(tok, now)
           remainingTTL == v.claims.ExpiresAt - now IN
       IF ~v.ok
       THEN /\ ok
            /\ last' = Resp("Logout", "", tok, "none", FALSE, "", "", NoToken, NoToken, 0)
            /\ UNCHANGED <<now, users, refresh, blacklist, inflight, issued, nIssued, hist>>
       ELSE IF OkCalls = 0 /\ remainingTTL > 0
       THEN IF ~ok THEN OnError("Logout", "", tok, "SetBlacklist", "StorageUnavailable")
            ELSE /\ blacklist' = SetBlacklist(blacklist, tok, now, remainingTTL)
                 /\ hist' = [hist EXCEPT !.calls = Called("SetBlacklist", TRUE)]
                 /\ UNCHANGED <<now, users, refresh, inflight, issued, nIssued, last>>
       ELSE IF ~ok THEN OnError("Logout", "", tok, "Del", "StorageUnavailable")
            ELSE /\ refresh' = DelRefresh(refresh, v.claims.UserID)
                 /\ last' = Resp("Logout", "", tok, "none", TRUE, "", "",
                                 NoToken, NoToken, 0)
                 /\ hist' = [SawLogout(hist, v.claims.UserID, tok)
                                EXCEPT !.calls = Called("Del", TRUE)]
                 /\ UNCHANGED <<now, users, blacklist, inflight, issued, nIssued>>

\* Lines 144-156: no dependency call.
ValidateTokenStep ==
    /\ Running /\ last.op = "ValidateToken"
    /\ ServerValidateToken(last.reqToken)

HandlerStep ==
    \/ \E ok \in BOOLEAN : RegisterStep(ok)
    \/ \E ok \in BOOLEAN : LoginStep(ok)
    \/ \E ok \in BOOLEAN : RefreshStep(ok)
    \/ \E ok \in BOOLEAN : LogoutStep(ok)
    \/ ValidateTokenStep

CallNext ==
    \/ DeliverCalls
    \/ \E e \in ExpiryEmails : Start("Register", e, NoToken)
    \/ \E e \in ExpiryEmails : Start("Login", e, NoToken)
    \/ \E tok \in IssuedRefresh \cup {Malformed} : Start("Refresh", "", tok)
    \/ \E tok \in IssuedRefresh \cup {Malformed} : Start("Logout", "", tok)
    \/ \E tok \in issued : Start("ValidateToken", "", tok)
    \/ HandlerStep

\* A handler that has been started keeps running: each of its calls returns,
\* with a result or with an error.
CallSpec == Init /\ [][CallNext]_vars /\ WF_vars(HandlerStep)

\* C26: the calls made for one request are at most three, no call site is
\* called twice, ValidateToken makes none; a call that returned an error is
\* the last call of its request and the request has ended with a failure;
\* and every request that is started ends.
C26_Inv ==
    LET c == hist.calls IN
    /\ Len(c) <= 3
    /\ \A i, j \in DOMAIN c : i # j => c[i].site # c[j].site
    /\ last.op = "ValidateToken" => c = <<>>
    /\ \A i \in DOMAIN c :
          ~c[i].ok => /\ i = Len(c)
                      /\ ~Running
                      /\ ~last.ok /\ last.err # "none" /\ NoTokensIn(last)
C26_NoRetriesBoundedWork ==
    /\ []C26_Inv
    /\ Running ~> ~Running

\* A request ended by the failure of its third call, the two before having
\* returned results.
C26_Witness ==
    /\ ~Running /\ ~Ready
    /\ last.err = "StorageUnavailable"
    /\ Len(hist.calls) = 3
    /\ ~hist.calls[3].ok

\* C28: a Refresh that is refused (Blacklisted, InvalidToken, NotFound or
\* Mismatch) writes nothing and issues nothing: every refresh:<id> key, the
\* blacklist and the set of tokens handed out are as before, the response
\* carries no token, and the token that Refresh accepted before the call is
\* still accepted after it.
RefreshFailures == {"Blacklisted", "InvalidToken", "NotFound", "Mismatch"}
C28_FailedRefreshChangesNothing ==
    [][(Ready /\ last'.op = "Refresh" /\ last'.err # "none") =>
          /\ last'.err \in RefreshFailures
          /\ refresh' = refresh /\ blacklist' = blacklist
          /\ issued' = issued /\ nIssued' = nIssued /\ users' = users
          /\ NoTokensIn(last')
          /\ \A u \in UserIDs :
                (HasEntry(u) /\ Accepted(refresh[u].val))
                   => (HasEntry(u) /\ Accepted(refresh[u].val))']_vars

\* A superseded token was presented again and refused, at a later instant
\* than its rotation, and the token that superseded it is still accepted.
C28_Witness ==
    /\ last.op = "Refresh" /\ last.err = "Mismatch"
    /\ \E r \in hist.rotated :
          /\ r.tok = last.reqToken
          /\ r.new.claims.IssuedAt < now
          /\ IsActive(r.new) /\ Accepted(r.new)

\* C29: a handler writes only the entries of the principal it concerns (the
\* account of the email for Register and Login, the principal in the claims
\* of the token for Refresh and Logout) and, in the blacklist, only the key
\* of the token presented.  For every other principal the refresh:<id> key
\* and the blacklist keys of its tokens are as before (up to keys whose TTL
\* ran out during the call), and while the clock has not moved the same of
\* its tokens are accepted by Refresh before and after.
Concerned(resp) ==
    IF resp.op \in {"Register", "Login"} THEN UserIDOf[resp.reqEmail]
    ELSE resp.reqToken.claims.UserID
KeysOf(store, r) == {b \in store : b.tok.claims.UserID = r}
C29_CrossPrincipalIsolation ==
    [][(Ready /\ last'.op \in {"Register", "Login", "Refresh", "Logout"}) =>
          /\ blacklist' \ blacklist \subseteq EntriesOf(blacklist', last'.reqToken)
          /\ \A r \in UserIDs \ {Concerned(last')} :
                /\ refresh'[r] = LiveRefresh(refresh, now')[r]
                /\ KeysOf(blacklist', r) = KeysOf(LiveBlacklist(blacklist, now'), r)
                /\ now' = now =>
                      \A t \in RefreshTokensOf(r) : Accepted(t)' = Accepted(t)]_vars

\* A Logout of one principal has succeeded while another principal has a
\* session whose token is accepted.
C29_Witness ==
    /\ last.op = "Logout" /\ last.ok
    /\ \E r \in UserIDs \ {last.reqToken.claims.UserID} :
          HasEntry(r) /\ Accepted(refresh[r].val)

\* C30: under any interleaving of the handlers, a refresh:<id> key that is
\* present holds a refresh token that was issued by GenerateTokenPair, whose
\* UserID claim is <id> and whose Email claim is the email of that account;
\* and both tokens returned by a Refresh carry the UserID and Email of the
\* token that was presented.
SameIdentity(a, b) ==
    a.claims.UserID = b.claims.UserID /\ a.claims.Email = b.claims.Email
C30_StoredValue ==
    /\ \A p \in UserIDs :
          refresh[p] # NoKey =>
             LET v == refresh[p].val IN
             /\ v \in issued
             /\ CorrectlySigned(v) /\ v.alg = "HS256"
             /\ v.claims.Type = "refresh"
             /\ v.claims.UserID = p
             /\ \E e \in Emails : users[e].ID = p /\ v.claims.Email = e
    /\ (last.op = "Refresh" /\ last.ok) =>
          /\ SameIdentity(last.RefreshToken, last.reqToken)
          /\ SameIdentity(last.AccessToken, last.reqToken)
    /\ \A r \in hist.rotated : SameIdentity(r.new, r.tok)

\* A Refresh has answered with a new pair while another Refresh of the same
\* principal is between its lookup and its write.
C30_Witness ==
    /\ last.op = "Refresh" /\ last.ok
    /\ IsActive(last.RefreshToken)
    /\ \E h \in Handlers :
          /\ inflight[h] # NoToken
          /\ inflight[h].claims.UserID = last.reqToken.claims.UserID

\* C31: when Register's Create has succeeded and its SET of refresh:<id>
\* fails, Register answers a failure without tokens, the account stays in
\* the users table (its password verifying) and no refresh:<id> key is
\* written; a Register that finds the account answers AlreadyExists and
\* writes nothing; and a Login of such an account whose calls succeed answers
\* with a pair and stores its refresh token.
LastCallOk(h) == h.calls # <<>> /\ h.calls[Len(h.calls)].ok
C31_RegisterNotAtomic ==
    [][/\ (Running /\ last.op = "Register" /\ OkCalls = 2 /\ ~last'.ok) =>
             /\ last'.err = "StorageUnavailable" /\ NoTokensIn(last')
             /\ users'[last.reqEmail] # NoUser /\ users' = users
             /\ \A p \in RegPasswords : CheckPassword(users'[last.reqEmail], p)
             /\ refresh' = refresh /\ issued' = issued
             /\ ~HasEntry(UserIDOf[last.reqEmail])'
       /\ (Running /\ last.op = "Register" /\ OkCalls = 0
             /\ users[last.reqEmail] # NoUser /\ LastCallOk(hist')) =>
             /\ last'.err = "AlreadyExists" /\ NoTokensIn(last')
             /\ users' = users /\ refresh' = refresh
       /\ (Running /\ last.op = "Login" /\ OkCalls = 1 /\ LastCallOk(hist')) =>
             /\ last'.ok /\ last'.err = "none"
             /\ last'.RefreshToken \in issued' \ issued
             /\ IsActive(last.RefreshToken)']_vars

\* The first pair ever issued for an account is answered by Login: the
\* account was persisted by a Register that failed after its Create.
C31_Witness ==
    /\ last.op = "Login" /\ last.ok
    /\ nIssued = 1
    /\ IsActive(last.RefreshToken)

\* ------------------------------------------------ Logout failing half-way
\* One account, the clock advancing between requests, and Logout's Redis
\* calls failing at will.
PartialNext ==
    \/ Deliver
    \/ Ready /\ Tick
    \/ Ready /\ \E e \in ExpiryEmails, p \in RegPasswords, n \in Names : Register(e, p, n)
    \/ Ready /\ \E e \in ExpiryEmails, p \in RegPasswords : Login(e, p)
    \/ Ready /\ \E tok \in IssuedRefresh : Refresh(tok)
    \/ Ready /\ \E tok \in IssuedRefresh, d \in 0..MaxDrift : Logout(tok, d)
    \/ Ready /\ \E tok \in IssuedRefresh, at \in {"SetBlacklist", "Del"} :
                  LogoutFault(tok, at)

PartialSpec == Init /\ [][PartialNext]_vars

\* C32 as stated: after a Logout(T) that wrote the blacklist key and failed
\* in its DEL, every later Refresh(T) fails with Blacklisted.
C32_BlacklistedEverAfter ==
    \A tok \in hist.partial : Ready => RefreshCheck(tok).err = "Blacklisted"

\* C32 amended: a Logout that fails leaves every refresh:<id> key as it was
\* and either leaves the blacklist as it was (its blacklist write failed) or
\* has written the key of T (its DEL failed); no Logout step, failing or
\* not, deletes refresh:<id> leaving an unexpired T without a blacklist key;
\* and after a Logout(T) that failed in its DEL, Refresh(T) fails with
\* Blacklisted at every instant before T's expiresAt and with InvalidToken
\* from then on.
C32_PartialLogoutSafe ==
    /\ [](\A tok \in hist.partial :
            Ready => RefreshCheck(tok).err =
                        IF Unexpired(tok) THEN "Blacklisted" ELSE "InvalidToken")
    /\ [][(Ready /\ last'.op = "Logout") =>
             LET T == last'.reqToken
                 p == T.claims.UserID IN
             /\ last'.err # "none" =>
                   /\ ~last'.ok
                   /\ refresh' = refresh
                   /\ \/ blacklist' = blacklist
                      \/ /\ T \in hist'.partial
                         /\ EntriesOf(blacklist', T) =
                               {[tok |-> T, exp |-> T.claims.ExpiresAt]}
                         /\ blacklist' \ blacklist \subseteq EntriesOf(blacklist', T)
             /\ (HasEntry(p) /\ ~(HasEntry(last.reqToken.claims.UserID))'
                    /\ (Unexpired(last.reqToken))') => (Revoked(last.reqToken))']_vars

\* A Refresh(T) refused as Blacklisted, at a later instant than the failed
\* Logout, while refresh:<id> still holds T.
C32_Witness ==
    /\ last.op = "Refresh" /\ last.err = "Blacklisted"
    /\ last.reqToken \in hist.partial
    /\ last.reqToken \notin hist.loggedOut
    /\ IsActive(last.reqToken)
    /\ last.reqToken.claims.IssuedAt < now

\* ------------------------------------------------ overlapping registrations
\* uuid.New() in models.NewUser: each call draws an ID of its own.
FreshID == [h \in Handlers |-> IF h = "h1" THEN "u1" ELSE "u2"]

\* Faulty variant: the email column is not declared UNIQUE.
UniqueViolationIDOnly(table, user) ==
    \E e \in DOMAIN table : table[e] # NoUser /\ table[e].ID = user.ID

\* The users table's constraints, id PRIMARY KEY and email UNIQUE: the
\* INSERT of a row that repeats either is rejected.
UniqueViolation(table, user) ==
    \E e \in DOMAIN table :
        /\ table[e] # NoUser
        /\ table[e].ID = user.ID \/ table[e].Email = user.Email

\* Register as handler h runs it when other handlers may run between its
\* existence check and its insert: lines 34-46, then lines 48-70.
RegisterBegin(h, email, password, name) ==
    /\ inflight[h] = NoToken
    /\ IF ExistsByEmail(email)
       THEN /\ last' = Fail("Register", email, NoToken, "AlreadyExists")
            /\ UNCHANGED <<now, users, refresh, blacklist, inflight, issued,
                           nIssued, hist>>
       ELSE /\ Budget
            /\ inflight' = [inflight EXCEPT ![h] =
                   [NewUser(email, password, name) EXCEPT !.ID = FreshID[h]]]
            /\ UNCHANGED <<now, users, refresh, blacklist, issued, nIssued,
                           last, hist>>

RegisterEnd(h) ==
    /\ inflight[h] # NoToken
    /\ inflight' = [inflight EXCEPT ![h] = NoToken]
    /\ LET user == inflight[h] IN
       IF UniqueViolation(users, user)
       THEN /\ last' = StorageError("Register", user.Email, NoToken)
            /\ UNCHANGED <<now, users, refresh, blacklist, issued, nIssued, hist>>
       ELSE /\ users' = Create(users, user)
            /\ IssueAndStore("Register", user.Email, NoToken, user.ID, user.Email)
            /\ hist' = SawCreate(SawRegister(hist, user.ID), user)
            /\ UNCHANGED <<now, blacklist>>

\* One email, registrations that may overlap, and the sessions that follow.
RaceNext ==
    \/ Deliver
    \/ Ready /\ Tick
    \/ Ready /\ \E h \in IdleHandlers, e \in ExpiryEmails, p \in Passwords, n \in Names :
                   RegisterBegin(h, e, p, n)
    \/ Ready /\ \E h \in Handlers : RegisterEnd(h)
    \/ Ready /\ \E e \in ExpiryEmails, p \in Passwords : Login(e, p)
    \/ Ready /\ \E tok \in IssuedRefresh : Refresh(tok)

RaceSpec == Init /\ [][RaceNext]_vars

\* Handlers that have passed the existence check for email e and not yet
\* run their insert.
PastCheck(e) == {h \in Handlers : inflight[h] # NoToken /\ inflight[h].Email = e}
CreatedWith(h, e) == {u \in h.created : u.Email = e}

\* C33: when Register calls for one email overlap so that each passes the
\* existence check before any inserts, at most one principal with that
\* email is ever persisted, at most one call succeeds and is handed
\* tokens (those of the persisted principal), and a call that loses fails,
\* is handed no token and writes no refresh:<id> key.
C33_RaceInv ==
    \A e \in Emails :
        /\ Cardinality(CreatedWith(hist, e)) <= 1
        /\ \A u \in CreatedWith(hist, e) : users[e] = u
        /\ \A t \in issued : t.claims.Email = e =>
               \E u \in CreatedWith(hist, e) : t.claims.UserID = u.ID
        /\ \A h \in PastCheck(e) :
               CreatedWith(hist, e) # {} =>
                  /\ inflight[h] \notin hist.created
                  /\ refresh[inflight[h].ID] = NoKey
C33_UniqueEmailUnderRace ==
    /\ []C33_RaceInv
    /\ [][(Ready /\ last'.op = "Register") =>
             IF last'.err = "none"
             THEN /\ users[last'.reqEmail] = NoUser
                  /\ CreatedWith(hist, last'.reqEmail) = {}
                  /\ users'[last'.reqEmail].ID = last'.UserId
                  /\ refresh'[last'.UserId].val = last'.RefreshToken
             ELSE /\ NoTokensIn(last')
                  /\ users' = users /\ refresh' = refresh /\ issued' = issued]_vars

\* Two calls had both passed the check; one inserted and succeeded, the
\* other has just failed in its insert, leaving no key under its own ID.
C33_Witness ==
    /\ last.op = "Register" /\ last.err = "StorageUnavailable"
    /\ \E u \in hist.created :
          /\ u.Email = last.reqEmail /\ users[last.reqEmail] = u
          /\ refresh[u.ID] # NoKey
          /\ \E id \in UserIDs \ {u.ID} : refresh[id] = NoKey
    /\ \A h \in Handlers : inflight[h] = NoToken
====
